---- MODULE Spec2Model ----
(***************************************************************************)
(* A model of the MongoDB aggregate paginator (src/src/Paginator.ts).      *)
(*                                                                         *)
(* One Paginator instance is constructed over a collection and a caller    *)
(* pipeline; callers invoke paginate() on it.  paginate() is an async      *)
(* method with two await points (the data query and the count query), so   *)
(* a call is a small process: idle -> getData -> getTotalInfo -> settled.  *)
(* The collection is the external collaborator: it evaluates a pipeline    *)
(* when the query completes, it may fail, and a writer may change the      *)
(* matching documents between any two steps.                               *)
(*                                                                         *)
(* JavaScript values: `undefined` / `null` is the empty tuple <<>>, a      *)
(* present value v is <<v>>.  A pipeline stage {$skip: n} is the record    *)
(* [skip |-> n], and so on.                                                *)
(***************************************************************************)
EXTENDS Integers, Sequences, FiniteSets, TLC

\* ------------------------------------------------------------------ bounds

MaxDocs == 4
MaxPage == 3
MaxLimit == 2
MaxWrites == 1
NumCalls == 2

Calls == 1..NumCalls

\* ------------------------------------------------------- program constants

DefaultPage == 1
DefaultLimit == 10

\* --------------------------------------------------------- the environment

Null == <<>>
Some(v) == <<v>>

\* The documents of the collection that the caller's stages let through.
Doc(i) == [_id |-> i, name |-> "test"]

\* The errors a query of the store can fail with on its own.
StoreErrors == {"MongoNetworkError"}

\* The error of a destructuring pattern applied to undefined.
TypeError == "TypeError"

PageValues == {-1} \cup 0..MaxPage
LimitValues == {-1} \cup 0..MaxLimit
UrlValues == {"", "/api/test"}
QueryValues == {"", "status=active"}
ProjectValues == {[_id |-> 0, name |-> 1]}
PipelineValues == {<<>>, <<[match |-> "test"]>>}

Optional(S) == {Null} \cup {Some(v) : v \in S}

\* PaginationOptions<T>: every field is optional.  An options argument that
\* is itself undefined reads as every field absent (options?.x).
OptionsValues ==
  [page : Optional(PageValues), limit : Optional(LimitValues),
   url : Optional(UrlValues), query : Optional(QueryValues),
   project : Optional(ProjectValues)]

VARIABLES
  docs,         \* the collection: the matching documents, in order
  writesLeft,   \* how many more times the writer changes the collection
  options,      \* this.options, the caller's options object
  aggregation,  \* this.aggregation, the caller's pipeline array (by reference)
  page, limit, query, url, project,   \* the instance fields
  callers,      \* the callers that invoke paginate() on the instance
  pc,           \* pc[c]: where call c is
  queries,      \* queries[c]: the collection.aggregate() calls of call c
  data,         \* data[c]: the local `data` of call c
  settled,      \* settled[c]: the value or the reason the promise settled with
  history       \* history[c]: what happened around call c (for the claims)

config == <<options, aggregation, page, limit, query, url, project>>
store == <<docs, writesLeft>>
vars == <<docs, writesLeft, options, aggregation, page, limit, query, url, project,
          callers, pc, queries, data, settled, history>>

\* ------------------------------------------------------------- JavaScript

\* Truthiness of an optional number, string, object.
TruthyNumber(o) == o # Null /\ o[1] # 0
TruthyString(o) == o # Null /\ o[1] # ""
TruthyObject(o) == o # Null

\* Math.ceil(a / b) for integers a and b # 0.
MathCeilDiv(a, b) ==
  IF b > 0 THEN -((-a) \div b) ELSE -(a \div (-b))

Last(s) == s[Len(s)]

\* ---------------------------------------------------------- the collection

\* A $project stage on one document: the fields marked 1, and _id unless it
\* is marked 0.
ProjectDoc(d, p) ==
  LET keep == {f \in DOMAIN d :
                 \/ f \in DOMAIN p /\ p[f] = 1
                 \/ f = "_id" /\ ~(f \in DOMAIN p /\ p[f] = 0)}
  IN [f \in keep |-> d[f]]

\* One stage applied to the rows that reach it.  The caller's own stages
\* ($match, ...) are opaque: docs already holds what they let through.
ApplyStage(rows, stage) ==
  IF "skip" \in DOMAIN stage
    THEN SubSeq(rows, stage.skip + 1, Len(rows))
  ELSE IF "limit" \in DOMAIN stage
    THEN SubSeq(rows, 1, IF stage.limit < Len(rows) THEN stage.limit ELSE Len(rows))
  ELSE IF "project" \in DOMAIN stage
    THEN [i \in 1..Len(rows) |-> ProjectDoc(rows[i], stage.project)]
  ELSE IF "count" \in DOMAIN stage
    THEN IF rows = <<>> THEN <<>> ELSE <<[f \in {stage.count} |-> Len(rows)]>>
  ELSE rows

RECURSIVE RunStages(_, _)
RunStages(rows, pipeline) ==
  IF pipeline = <<>> THEN rows
  ELSE RunStages(ApplyStage(rows, Head(pipeline)), Tail(pipeline))

\* collection.aggregate(pipeline).toArray() once it completes.
Aggregate(pipeline) == RunStages(docs, pipeline)

\* The store takes a $skip >= 0 and a $limit > 0.
StagesAccepted(pipeline) ==
  \A i \in 1..Len(pipeline) :
    /\ "skip" \in DOMAIN pipeline[i] => pipeline[i].skip >= 0
    /\ "limit" \in DOMAIN pipeline[i] => pipeline[i].limit > 0

\* --------------------------------------------------------- the constructor

\* Faulty variant: a constructor that validates: a page below 1 becomes the default.
ConstructPageValidated(o) ==
  IF o.page # Null /\ o.page[1] >= 1 THEN o.page[1] ELSE DefaultPage

ConstructPage(o) == IF TruthyNumber(o.page) THEN o.page[1] ELSE DefaultPage
ConstructLimit(o) == IF TruthyNumber(o.limit) THEN o.limit[1] ELSE DefaultLimit
ConstructUrl(o) == IF TruthyString(o.url) THEN o.url[1] ELSE ""
ConstructQuery(o) == IF TruthyString(o.query) THEN o.query[1] ELSE ""
ConstructProject(o) == IF TruthyObject(o.project) THEN o.project ELSE Null

NoCall == [value |-> Null, reason |-> Null]
NoHistory == [snapshot |-> <<>>, changed |-> FALSE, overlapped |-> FALSE]

Constructed(o, pipeline) ==
  /\ options = o
  /\ aggregation = pipeline
  /\ page = ConstructPage(o)
  /\ limit = ConstructLimit(o)
  /\ url = ConstructUrl(o)
  /\ query = ConstructQuery(o)
  /\ project = ConstructProject(o)
  /\ pc = [c \in Calls |-> "idle"]
  /\ queries = [c \in Calls |-> <<>>]
  /\ data = [c \in Calls |-> <<>>]
  /\ settled = [c \in Calls |-> NoCall]
  /\ history = [c \in Calls |-> NoHistory]

\* --------------------------------------------------------------- the URLs

QueryPrefix == IF query # "" THEN query \o "&" ELSE ""

GetFirstPageUrl == url \o "?" \o QueryPrefix \o "page=1"

GetLastPageUrl(lastPage) == url \o "?" \o QueryPrefix \o "page=" \o ToString(lastPage)

GetPreviousPageUrl ==
  IF page = 1 THEN Null
  ELSE Some(url \o "?" \o QueryPrefix \o "page=" \o ToString(page - 1))

\* Faulty variant: no next page at or past the last page.
GetNextPageUrlClamped(lastPage) ==
  IF page >= lastPage THEN Null
  ELSE Some(url \o "?" \o QueryPrefix \o "page=" \o ToString(page + 1))

GetNextPageUrl(lastPage) ==
  IF page = lastPage THEN Null
  ELSE Some(url \o "?" \o QueryPrefix \o "page=" \o ToString(page + 1))

\* ---------------------------------------------------------------- paginate

\* Faulty variant: Math.floor in place of Math.ceil.
TotalPagesFloor(totalCount) ==
  IF totalCount > 0 THEN totalCount \div limit ELSE 1

TotalPages(totalCount) ==
  IF totalCount > 0 THEN MathCeilDiv(totalCount, limit) ELSE 1

From(totalCount) ==
  IF totalCount > 0 THEN (IF page = 1 THEN 1 ELSE (page - 1) * limit + 1) ELSE 0

\* Faulty variant: the nominal upper bound on every page, the last one included.
ToNominal(totalCount) == page * limit

To(totalCount) ==
  IF page = TotalPages(totalCount) THEN totalCount ELSE page * limit

Meta(rows, totalCount) ==
  [data |-> rows,
   first_page_url |-> GetFirstPageUrl,
   last_page_url |-> GetLastPageUrl(TotalPages(totalCount)),
   next_page_url |-> GetNextPageUrl(TotalPages(totalCount)),
   prev_page_url |-> GetPreviousPageUrl,
   path |-> url,
   per_page |-> limit,
   from |-> From(totalCount),
   to |-> To(totalCount),
   total |-> totalCount,
   current_page |-> page,
   last_page |-> TotalPages(totalCount)]

\* The pipeline getData() sends.
GetDataAggregation ==
  LET paged == aggregation \o <<[skip |-> (page - 1) * limit], [limit |-> limit]>>
  IN IF TruthyObject(options.project)
       THEN Append(paged, [project |-> options.project[1]])
       ELSE paged

\* Faulty variant: the count stage appended to the paged pipeline.
GetTotalInfoAggregationPaged == Append(GetDataAggregation, [count |-> "totalCount"])

\* The pipeline getTotalInfo() sends.
GetTotalInfoAggregation == Append(aggregation, [count |-> "totalCount"])

Query(pipeline) ==
  [pipeline |-> pipeline, status |-> "pending", rows |-> <<>>, error |-> Null]

Resolved(q, rows) == [q EXCEPT !.status = "resolved", !.rows = rows]
Rejected(q, e) == [q EXCEPT !.status = "rejected", !.error = Some(e)]

InFlight(c) == pc[c] \in {"getData", "getTotalInfo"}

\* The last query of call c, replaced by q.
Answered(c, q) == [queries EXCEPT ![c][Len(queries[c])] = q]

\* Faulty variant: getData() pushes its stages onto this.aggregation itself.
PaginateInPlace(c) ==
  /\ c \in callers
  /\ pc[c] = "idle"
  /\ aggregation' = GetDataAggregation
  /\ queries' = [queries EXCEPT ![c] = <<Query(GetDataAggregation)>>]
  /\ pc' = [pc EXCEPT ![c] = "getData"]
  /\ history' = [d \in Calls |->
       IF d = c
         THEN [snapshot |-> docs, changed |-> FALSE,
               overlapped |-> \E e \in Calls : InFlight(e)]
       ELSE IF InFlight(d) THEN [history[d] EXCEPT !.overlapped = TRUE]
       ELSE history[d]]
  /\ UNCHANGED <<options, page, limit, query, url, project, store, callers,
                 data, settled>>

\* paginate() up to its first await: getData() builds its pipeline from a
\* copy of this.aggregation and starts the data query.
Paginate(c) ==
  /\ c \in callers
  /\ pc[c] = "idle"
  /\ queries' = [queries EXCEPT ![c] = <<Query(GetDataAggregation)>>]
  /\ pc' = [pc EXCEPT ![c] = "getData"]
  /\ history' = [d \in Calls |->
       IF d = c
         THEN [snapshot |-> docs, changed |-> FALSE,
               overlapped |-> \E e \in Calls : InFlight(e)]
       ELSE IF InFlight(d) THEN [history[d] EXCEPT !.overlapped = TRUE]
       ELSE history[d]]
  /\ UNCHANGED <<config, store, callers, data, settled>>

\* Faulty variant: the count query is run whatever the data query returned.
NeedsTotalInfoAlways(rows) == TRUE

\* data.length > 0: whether paginate() runs the count query.
NeedsTotalInfo(rows) == Len(rows) > 0

\* The data query completes: `data` is bound; with records in it
\* getTotalInfo() starts the count query, with none the result is built
\* from a total of 0.
DataResolves(c) ==
  /\ pc[c] = "getData"
  /\ LET q == Last(queries[c])
         rows == IF StagesAccepted(q.pipeline) THEN Aggregate(q.pipeline) ELSE <<>>
     IN /\ data' = [data EXCEPT ![c] = rows]
        /\ IF NeedsTotalInfo(rows)
             THEN /\ queries' = [queries EXCEPT ![c] =
                        <<Resolved(q, rows), Query(GetTotalInfoAggregation)>>]
                  /\ pc' = [pc EXCEPT ![c] = "getTotalInfo"]
                  /\ UNCHANGED settled
             ELSE /\ queries' = Answered(c, Resolved(q, rows))
                  /\ pc' = [pc EXCEPT ![c] = "fulfilled"]
                  /\ settled' = [settled EXCEPT ![c].value = Some(Meta(rows, 0))]
  /\ UNCHANGED <<config, store, callers, history>>

\* Faulty variant: the failure is caught and rethrown as an error of the paginator.
DataRejectsWrapped(c, e) ==
  /\ pc[c] = "getData"
  /\ \/ e \in StoreErrors
     \/ e = "MongoServerError" /\ ~StagesAccepted(Last(queries[c]).pipeline)
  /\ queries' = Answered(c, Rejected(Last(queries[c]), e))
  /\ pc' = [pc EXCEPT ![c] = "rejected"]
  /\ settled' = [settled EXCEPT ![c].reason = Some("PaginatorError")]
  /\ UNCHANGED <<config, store, callers, data, history>>

\* The data query fails: nothing catches it, paginate() rejects with it.
DataRejects(c, e) ==
  /\ pc[c] = "getData"
  /\ \/ e \in StoreErrors
     \/ e = "MongoServerError" /\ ~StagesAccepted(Last(queries[c]).pipeline)
  /\ queries' = Answered(c, Rejected(Last(queries[c]), e))
  /\ pc' = [pc EXCEPT ![c] = "rejected"]
  /\ settled' = [settled EXCEPT ![c].reason = Some(e)]
  /\ UNCHANGED <<config, store, callers, data, history>>

\* Faulty variant: an empty count result is read as a total of 0.
CountResolvesFallback(c) ==
  /\ pc[c] = "getTotalInfo"
  /\ LET q == Last(queries[c])
         rows == Aggregate(q.pipeline)
     IN /\ queries' = Answered(c, Resolved(q, rows))
        /\ pc' = [pc EXCEPT ![c] = "fulfilled"]
        /\ settled' = [settled EXCEPT ![c].value =
             Some(Meta(data[c], IF rows = <<>> THEN 0 ELSE rows[1].totalCount))]
  /\ UNCHANGED <<config, store, callers, data, history>>

\* The count query completes: [{ totalCount }] destructures its first
\* record, which throws on an empty array; else the result is built.
CountResolves(c) ==
  /\ pc[c] = "getTotalInfo"
  /\ LET q == Last(queries[c])
         rows == Aggregate(q.pipeline)
     IN /\ queries' = Answered(c, Resolved(q, rows))
        /\ IF rows = <<>>
             THEN /\ pc' = [pc EXCEPT ![c] = "rejected"]
                  /\ settled' = [settled EXCEPT ![c].reason = Some(TypeError)]
             ELSE /\ pc' = [pc EXCEPT ![c] = "fulfilled"]
                  /\ settled' = [settled EXCEPT ![c].value =
                                   Some(Meta(data[c], rows[1].totalCount))]
  /\ UNCHANGED <<config, store, callers, data, history>>

\* The count query fails: paginate() rejects with it.
CountRejects(c, e) ==
  /\ pc[c] = "getTotalInfo"
  /\ e \in StoreErrors
  /\ queries' = Answered(c, Rejected(Last(queries[c]), e))
  /\ pc' = [pc EXCEPT ![c] = "rejected"]
  /\ settled' = [settled EXCEPT ![c].reason = Some(e)]
  /\ UNCHANGED <<config, store, callers, data, history>>

\* ------------------------------------------------------------- the writer

Written(newDocs) ==
  /\ writesLeft > 0
  /\ writesLeft' = writesLeft - 1
  /\ docs' = newDocs
  /\ history' = [c \in Calls |->
       IF InFlight(c) THEN [history[c] EXCEPT !.changed = TRUE] ELSE history[c]]
  /\ UNCHANGED <<config, callers, pc, queries, data, settled>>

InsertOne == Len(docs) < MaxDocs /\ Written(Append(docs, Doc(Len(docs) + 1)))
DeleteOne == Len(docs) > 1 /\ Written(SubSeq(docs, 1, Len(docs) - 1))
DeleteMany == Len(docs) > 0 /\ Written(<<>>)

\* ------------------------------------------------------ the specifications

Collection(n) == [i \in 1..n |-> Doc(i)]

\* One caller, every combination of options.
Init ==
  /\ \E n \in 0..MaxDocs : docs = Collection(n)
  /\ writesLeft = MaxWrites
  /\ callers = {1}
  /\ \E o \in OptionsValues, p \in PipelineValues : Constructed(o, p)

Next ==
  \/ \E c \in Calls : Paginate(c)
  \/ \E c \in Calls : DataResolves(c)
  \/ \E c \in Calls, e \in StoreErrors \cup {"MongoServerError"} : DataRejects(c, e)
  \/ \E c \in Calls : CountResolves(c)
  \/ \E c \in Calls, e \in StoreErrors : CountRejects(c, e)
  \/ InsertOne
  \/ DeleteOne
  \/ DeleteMany

Spec == Init /\ [][Next]_vars

\* Every caller at once on one instance, over options that give several
\* pages, with one change of the collection.
ConcurrentOptions ==
  {o \in OptionsValues :
     /\ o.page \in {Null, Some(2)}
     /\ o.limit = Some(2)
     /\ o.url = Some("/api/test")
     /\ o.query = Null}

InitConcurrent ==
  /\ \E n \in 0..MaxDocs : docs = Collection(n)
  /\ writesLeft = 1
  /\ callers = Calls
  /\ \E o \in ConcurrentOptions : Constructed(o, <<[match |-> "test"]>>)

SpecConcurrent == InitConcurrent /\ [][Next]_vars

\* ------------------------------------------------------------- the claims

Fulfilled(c) == pc[c] = "fulfilled"
Result(c) == settled[c].value[1]

HasStage(pipeline, name) == \E i \in 1..Len(pipeline) : name \in DOMAIN pipeline[i]
CountQueries(c) == {i \in 1..Len(queries[c]) : HasStage(queries[c][i].pipeline, "count")}

\* The least k with k * l >= t: ceil(t / l) for t >= 0 and l >= 1.
LeastPages(t, l) == CHOOSE k \in 0..t : k * l >= t /\ \A j \in 0..t : j * l >= t => k <= j

Max(a, b) == IF a >= b THEN a ELSE b

\* C1: with page >= 1 and limit >= 1, a returned result has
\* last_page = max(1, ceil(total / limit)); so last_page >= 1, and
\* last_page = 1 when total = 0.
C1_LastPage ==
  \A c \in Calls :
    Fulfilled(c) /\ page >= 1 /\ limit >= 1 =>
      /\ Result(c).last_page = Max(1, LeastPages(Result(c).total, limit))
      /\ Result(c).last_page >= 1
      /\ Result(c).total = 0 => Result(c).last_page = 1

C1_Witness ==
  \E c \in Calls :
    /\ Fulfilled(c) /\ page >= 1 /\ limit = 2
    /\ Result(c).total = 3 /\ Result(c).last_page = 2

\* C2: when the data query returned no records the call runs no count query
\* and reports total = 0 and last_page = 1; when it returned records the
\* count query is run exactly once and total is the totalCount field of its
\* single record.
C2_CountOnlyWithData ==
  \A c \in Calls :
    /\ Cardinality(CountQueries(c)) <= 1
    /\ CountQueries(c) # {} => data[c] # <<>>
    /\ Fulfilled(c) /\ data[c] = <<>> =>
         /\ CountQueries(c) = {}
         /\ Result(c).total = 0
         /\ Result(c).last_page = 1
    /\ Fulfilled(c) /\ data[c] # <<>> =>
         /\ Cardinality(CountQueries(c)) = 1
         /\ \A i \in CountQueries(c) :
              /\ Len(queries[c][i].rows) = 1
              /\ Result(c).total = queries[c][i].rows[1].totalCount

C2_Witness ==
  \E c \in Calls :
    /\ Fulfilled(c) /\ data[c] = <<>> /\ page = 2
    /\ Len(docs) > 0 /\ ~history[c].changed

\* C3: the data query is sent the original stages, then $skip of
\* (page - 1) * limit, then $limit of limit, then $project exactly when a
\* projection option was given; the count query is sent the original stages
\* and then $count "totalCount", with no skip, limit or projection stage.
C3_Pipelines ==
  \A c \in Calls :
    /\ Len(queries[c]) >= 1 =>
         LET sent == queries[c][1].pipeline
             n == Len(aggregation)
         IN /\ Len(sent) = n + 2 + (IF options.project # Null THEN 1 ELSE 0)
            /\ SubSeq(sent, 1, n) = aggregation
            /\ sent[n + 1] = [skip |-> (page - 1) * limit]
            /\ sent[n + 2] = [limit |-> limit]
            /\ options.project # Null => sent[n + 3] = [project |-> options.project[1]]
            /\ HasStage(sent, "project") <=> options.project # Null
    /\ Len(queries[c]) >= 2 =>
         LET sent == queries[c][2].pipeline
             n == Len(aggregation)
         IN /\ Len(sent) = n + 1
            /\ SubSeq(sent, 1, n) = aggregation
            /\ sent[n + 1] = [count |-> "totalCount"]
            /\ ~HasStage(sent, "skip")
            /\ ~HasStage(sent, "limit")
            /\ ~HasStage(sent, "project")

C3_Witness ==
  \E c \in Calls :
    /\ Len(queries[c]) = 2
    /\ aggregation # <<>> /\ options.project # Null /\ page = 2

\* The URL of page n.
PageUrl(n) ==
  url \o "?" \o (IF query = "" THEN "" ELSE query \o "&") \o "page=" \o ToString(n)

C5_EmptyData ==
  \A c \in Calls :
    Fulfilled(c) /\ data[c] = <<>> /\ page >= 1 =>
      LET r == Result(c)
      IN /\ r.from = 0 /\ r.to = 0
         /\ r.next_page_url = Null /\ r.prev_page_url = Null
         /\ r.total = 0 /\ r.last_page = 1

\* The value the instance uses for an option: the default when the option
\* is absent or 0, else the value as given.
Used(o, default) == IF o = Null \/ o[1] = 0 THEN default ELSE o[1]

UsedEverywhere(p, l) ==
  /\ page = p /\ limit = l
  /\ \A c \in Calls :
       /\ Len(queries[c]) >= 1 =>
            LET sent == queries[c][1].pipeline
            IN /\ sent[Len(aggregation) + 1] = [skip |-> (p - 1) * l]
               /\ sent[Len(aggregation) + 2] = [limit |-> l]
       /\ Fulfilled(c) =>
            /\ Result(c).current_page = p /\ Result(c).per_page = l
            /\ Result(c).total = 0 => Result(c).to = (IF p = 1 THEN 0 ELSE p * l)

\* C6 as stated: each default is used only when that option is absent; any
\* integer given, zero and negative included, is stored as it is and is the
\* value of the $skip and $limit stages, of per_page and current_page and of
\* the page arithmetic.
C6_AnyValueKept ==
  UsedEverywhere(IF options.page = Null THEN DefaultPage ELSE options.page[1],
                 IF options.limit = Null THEN DefaultLimit ELSE options.limit[1])

\* C6 as amended: each default is used when that option is absent or zero;
\* any other integer given, negative included, is stored as it is and is
\* the value of the $skip and $limit stages, of per_page and current_page
\* and of the page arithmetic.
C6_NonZeroValueKept ==
  UsedEverywhere(Used(options.page, DefaultPage), Used(options.limit, DefaultLimit))

C6_Witness ==
  \E c \in Calls :
    /\ Fulfilled(c)
    /\ options.page = Some(-1) /\ options.limit = Some(2)
    /\ Result(c).current_page = -1 /\ Result(c).to = -2

\* C7: over documents that do not change during the call, with page >= 1,
\* limit >= 1 and data not empty: data holds at most limit items, from is
\* the index of its first item ((page - 1) * limit + 1), to that of its last
\* (from + length - 1), and 1 <= from <= to <= total = N.
C7_Indices ==
  \A c \in Calls :
    Fulfilled(c) /\ ~history[c].changed /\ page >= 1 /\ limit >= 1 /\ data[c] # <<>> =>
      LET r == Result(c)
          all == history[c].snapshot
      IN /\ Len(r.data) <= limit
         /\ r.from = (page - 1) * limit + 1
         /\ r.to = r.from + Len(r.data) - 1
         /\ 1 <= r.from /\ r.from <= r.to /\ r.to <= r.total
         /\ r.total = Len(all)
         /\ options.project = Null => r.data = SubSeq(all, r.from, r.to)

C7_Witness ==
  \E c \in Calls :
    /\ Fulfilled(c) /\ ~history[c].changed
    /\ page = 2 /\ limit = 2 /\ Len(history[c].snapshot) = 3
    /\ Len(Result(c).data) = 1 /\ Result(c).to = 3

\* What one call alone returns over the documents all.
Isolated(all) ==
  LET rows == RunStages(all, GetDataAggregation)
      count == RunStages(all, GetTotalInfoAggregation)
  IN Meta(rows, IF rows = <<>> THEN 0 ELSE count[1].totalCount)

Identical ==
  \A c \in Calls :
    Fulfilled(c) /\ ~history[c].changed =>
      /\ Result(c) = Isolated(history[c].snapshot)
      /\ \A d \in Calls :
           Fulfilled(d) /\ ~history[d].changed
             /\ history[d].snapshot = history[c].snapshot => Result(d) = Result(c)

\* C8: over any interleaving of paginate() calls on one instance, the
\* caller's pipeline array and the instance's page, limit, url, query and
\* project stay as constructed, and a call during which the documents did
\* not change returns what a single call alone returns.
C8_Independent == [][config' = config]_vars /\ []Identical

C8_Witness ==
  \E c, d \in Calls :
    /\ c # d /\ Fulfilled(c) /\ Fulfilled(d)
    /\ history[c].overlapped /\ history[d].overlapped
    /\ ~history[c].changed /\ ~history[d].changed
    /\ history[c].snapshot = history[d].snapshot
    /\ Len(Result(c).data) = 2 /\ page = 2

\* C9: the two queries of a call run one after the other and are never
\* retried: the count query starts after the data query completed, each is
\* sent at most once, a failure of either makes paginate() fail with that
\* same error (the count query not being sent after a failed data query),
\* and a failed call returns no result.
C9_Sequential ==
  \A c \in Calls :
    /\ Len(queries[c]) <= 2
    /\ CountQueries(c) \subseteq {2}
    /\ pc[c] = "idle" <=> queries[c] = <<>>
    /\ Len(queries[c]) = 2 => queries[c][1].status = "resolved"
    /\ \A i \in 1..Len(queries[c]) :
         /\ queries[c][i].status = "pending" <=> InFlight(c) /\ i = Len(queries[c])
         /\ queries[c][i].status = "rejected" =>
              /\ i = Len(queries[c])
              /\ pc[c] = "rejected"
              /\ settled[c].reason = queries[c][i].error
    /\ pc[c] = "rejected" => settled[c].value = Null /\ settled[c].reason # Null
    /\ pc[c] # "fulfilled" => settled[c].value = Null

C9_Witness ==
  \E c \in Calls :
    /\ pc[c] = "rejected" /\ Len(queries[c]) = 1
    /\ queries[c][1].status = "rejected"
    /\ settled[c].reason = Some("MongoNetworkError")

\* C10: when the data query returned records and the count query then
\* returns an empty sequence, paginate() fails and returns no result; it
\* does not fall back to total = 0 and last_page = 1, so a result with data
\* in it has its total from a count record.
C10_EmptyCountFails ==
  \A c \in Calls :
    /\ Len(queries[c]) = 2 /\ queries[c][2].status = "resolved"
         /\ queries[c][2].rows = <<>> =>
         /\ pc[c] = "rejected"
         /\ settled[c].reason # Null
         /\ settled[c].value = Null
    /\ Fulfilled(c) /\ Result(c).data # <<>> =>
         /\ Len(queries[c]) = 2
         /\ queries[c][2].rows # <<>>
         /\ Result(c).total = queries[c][2].rows[1].totalCount

C10_Witness ==
  \E c \in Calls :
    /\ data[c] # <<>> /\ history[c].changed /\ docs = <<>>
    /\ Len(queries[c]) = 2 /\ queries[c][2].status = "resolved"
    /\ queries[c][2].rows = <<>>
    /\ pc[c] = "rejected" /\ settled[c].reason = Some(TypeError)

====
